---- MODULE Spec2Model ----
(***************************************************************************)
(* A model of the vixy request dispatch pipeline: route registration and   *)
(* matching (src/src/index.ts), the middleware chain executor              *)
(* (executeMiddlewareChain) and the request context (src/src/context.ts).  *)
(*                                                                         *)
(* Strings are modelled as sequences of tokens: "/api/users" is            *)
(* <<"/", "api", "/", "users">>, ":wildcard1" is <<":", "wildcard", "1">>. *)
(* startsWith, endsWith and slice then act on tokens as the JavaScript     *)
(* methods act on characters.                                              *)
(***************************************************************************)
EXTENDS Integers, Sequences, FiniteSets, TLC

----------------------------------------------------------------------------
(* Bounds of the model *)

MaxGlobal == 2

MaxRouteMw == 1

MaxDispatch == 2

MaxRoutes == 2

MaxCalls == 3

MaxPairs == 3

----------------------------------------------------------------------------
(* Strings as token sequences *)

StartsWith(s, p) ==
    /\ Len(p) <= Len(s)
    /\ SubSeq(s, 1, Len(p)) = p

EndsWith(s, p) ==
    /\ Len(p) <= Len(s)
    /\ SubSeq(s, Len(s) - Len(p) + 1, Len(s)) = p

\* String.prototype.slice(0, -n)
SliceOff(s, n) == SubSeq(s, 1, Len(s) - n)

\* the decimal form of a small counter, as a token
NumStr(n) == <<"1", "2", "3", "4", "5", "6", "7", "8", "9">>[n]

DigitTokens == {NumStr(n) : n \in 1..9}

RECURSIVE SplitSlash(_)
\* String.prototype.split("/")
SplitSlash(s) ==
    IF s = <<>> THEN << <<>> >>
    ELSE IF Head(s) = "/"
         THEN << <<>> >> \o SplitSlash(Tail(s))
         ELSE LET rest == SplitSlash(Tail(s))
              IN  << <<Head(s)>> \o Head(rest) >> \o Tail(rest)

\* the segments of a path, without the empty piece before the leading "/"
Segments(path) ==
    LET parts == SplitSlash(path)
    IN  IF Head(parts) = <<>> /\ Len(parts) > 1 THEN Tail(parts) ELSE parts

----------------------------------------------------------------------------
(* JavaScript values *)

Undefined == [type |-> "undefined"]

\* new Response(body, {status, headers})
NewResponse(body, status, headers) ==
    [type |-> "object", body |-> body, status |-> status, headers |-> headers]

IsResponse(v) == v.type = "object" /\ "status" \in DOMAIN v

\* an Error instance thrown by user code
ErrorValue == [type |-> "object", message |-> <<"boom">>]

\* a primitive thrown by user code (throw "boom")
StringValue == [type |-> "string", message |-> <<"boom">>]

\* the tagged object of index.ts line 85
Sentinel(result) == [type |-> "object", __isResponse |-> TRUE, response |-> result]

\* no value stored under a key (undefined)
Absent == <<"undefined">>

Digit(n) == <<"0", "1", "2", "3", "4", "5", "6", "7", "8", "9">>[n + 1]

RECURSIVE Decimal(_)
\* the decimal form of a natural number, as `${n}` and String(n) give it
Decimal(n) ==
    IF n < 10 THEN <<Digit(n)>> ELSE Decimal(n \div 10) \o <<Digit(n % 10)>>

\* values user code passes where any value is accepted
StringOf(text) == [type |-> "string", text |-> text]

NumberOf(n) == [type |-> "number", n |-> n]

BooleanOf(b) == [type |-> "boolean", b |-> b]

Null == [type |-> "null"]

\* String(value)
String(value) ==
    CASE value.type = "string" -> value.text
      [] value.type = "number" -> Decimal(value.n)
      [] value.type = "boolean" -> IF value.b THEN <<"true">> ELSE <<"false">>
      [] value.type = "null" -> <<"null">>
      [] value.type = "undefined" -> <<"undefined">>

\* what a lookup on an object literal finds for a key the object does not
\* own: the properties of Object.prototype
ObjectPrototype ==
    [k \in {"constructor"} |-> <<"function Object() { [native code] }">>]

NoHeaders == [k \in {} |-> <<>>]

\* {...a, ...b}: the keys of both, b winning
Spread(a, b) ==
    [k \in DOMAIN a \cup DOMAIN b |-> IF k \in DOMAIN b THEN b[k] ELSE a[k]]

----------------------------------------------------------------------------
(* The route table: find-my-way behind convertWildcardPath *)

RECURSIVE ReplaceStars(_, _)
ReplaceStars(path, wildcardCount) ==
    IF path = <<>> THEN <<>>
    ELSE IF Head(path) = "*"
         THEN <<":", "wildcard", NumStr(wildcardCount + 1)>>
                  \o ReplaceStars(Tail(path), wildcardCount + 1)
         ELSE <<Head(path)>> \o ReplaceStars(Tail(path), wildcardCount)

convertWildcardPath(path) == ReplaceStars(path, 0)

IsParamSegment(seg) == seg # <<>> /\ Head(seg) = ":"

\* a converted pattern matches a request path: as many segments, each
\* static segment equal, each parametric segment matched by a non-empty one
PatternMatches(pattern, pathname) ==
    LET ps == Segments(pattern)
        qs == Segments(pathname)
    IN  /\ Len(ps) = Len(qs)
        /\ \A i \in 1..Len(ps) :
              IF IsParamSegment(ps[i]) THEN qs[i] # <<>> ELSE ps[i] = qs[i]

\* the matcher prefers a static segment to a parametric one, leftmost first
MoreSpecific(p1, p2) ==
    LET s1 == Segments(p1)
        s2 == Segments(p2)
    IN  \E i \in 1..Len(s1) :
           /\ i <= Len(s2)
           /\ ~IsParamSegment(s1[i]) /\ IsParamSegment(s2[i])
           /\ \A j \in 1..(i - 1) : IsParamSegment(s1[j]) = IsParamSegment(s2[j])

\* the captures of a match: parameter name -> matched segment
Captures(pattern, pathname) ==
    LET ps == Segments(pattern)
        qs == Segments(pathname)
        idx == {i \in 1..Len(ps) : IsParamSegment(ps[i])}
        last(name) == CHOOSE i \in idx :
                         /\ Tail(ps[i]) = name
                         /\ \A j \in idx : Tail(ps[j]) = name => j <= i
    IN  [name \in {Tail(ps[i]) : i \in idx} |-> qs[last(name)]]

\* the shape of a pattern: its segments with the parameter names erased
Shape(pattern) ==
    LET ps == Segments(pattern)
    IN  [i \in 1..Len(ps) |-> IF IsParamSegment(ps[i]) THEN <<":">> ELSE ps[i]]

Candidates(table, method, pathname) ==
    {r \in table : r.method = method /\ PatternMatches(r.pattern, pathname)}

\* router.find(method, pathname): the matched entries (at most one)
RouterFind(table, method, pathname) ==
    LET c == Candidates(table, method, pathname)
    IN  {r \in c : \A o \in c : ~MoreSpecific(o.pattern, r.pattern)}

----------------------------------------------------------------------------
(* The request context (context.ts) *)

\* new VixyContext(rawRequest, params, routePathname)
NewContext(params, routePathname) ==
    [params |-> params,
     routePathname |-> routePathname,
     contextStore |-> [k \in {} |-> <<>>],
     customHeaders |-> NoHeaders]

NoParams == [k \in {} |-> <<>>]

setContext_lost(c, key, value) == c

\* req.setContext(key, value)
setContext(c, key, value) ==
    [c EXCEPT !.contextStore = Spread(@, [k \in {key} |-> value])]

\* req.getContext(key)
getContext(c, key) ==
    IF key \in DOMAIN c.contextStore THEN c.contextStore[key]
    ELSE IF key \in DOMAIN ObjectPrototype THEN ObjectPrototype[key]
    ELSE Absent

resHeader_first(c, key, value) ==
    [c EXCEPT !.customHeaders = Spread([k \in {key} |-> String(value)], @)]

\* res.header(key, value)
resHeader(c, key, value) ==
    [c EXCEPT !.customHeaders = Spread(@, [k \in {key} |-> String(value)])]

\* res.text(content, status)
resText(c, content, status) ==
    NewResponse(content, status,
                Spread([k \in {"Content-Type"} |-> <<"text/plain">>],
                       c.customHeaders))

\* res.json(data, status)
resJson(c, data, status) ==
    NewResponse(data, status,
                Spread([k \in {"Content-Type"} |-> <<"application/json">>],
                       c.customHeaders))

RECURSIVE SplitOn(_, _)
\* the pieces of a string between occurrences of a separator
SplitOn(s, separator) ==
    IF s = <<>> THEN << <<>> >>
    ELSE IF Head(s) = separator
         THEN << <<>> >> \o SplitOn(Tail(s), separator)
         ELSE LET rest == SplitOn(Tail(s), separator)
              IN  << <<Head(s)>> \o Head(rest) >> \o Tail(rest)

\* a piece name=value of a query string: split at the first "="
QueryPair(piece) ==
    LET at == {i \in 1..Len(piece) : piece[i] = "="} IN
    IF at = {} THEN [name |-> piece, value |-> <<>>]
    ELSE LET first == CHOOSE i \in at : \A j \in at : i <= j
         IN  [name |-> SubSeq(piece, 1, first - 1),
              value |-> SubSeq(piece, first + 1, Len(piece))]

\* url.searchParams: the pairs of the query string in order, empty pieces
\* skipped
searchParams(search) ==
    LET pieces == SelectSeq(SplitOn(search, "&"), LAMBDA piece : piece # <<>>)
    IN  [i \in 1..Len(pieces) |-> QueryPair(pieces[i])]

\* searchParams.getAll(name)
getAll(params, name) ==
    LET hits == SelectSeq(params, LAMBDA pair : pair.name = name)
    IN  [i \in 1..Len(hits) |-> hits[i].value]

get_last(params, name) ==
    LET values == getAll(params, name)
    IN  IF values = <<>> THEN Null ELSE StringOf(values[Len(values)])

\* searchParams.get(name): the first value, or null
get(params, name) ==
    LET values == getAll(params, name)
    IN  IF values = <<>> THEN Null ELSE StringOf(values[1])

ArrayOf(values) == [type |-> "array", values |-> values]

\* req.queries(name)
queries(search, name) ==
    LET values == getAll(searchParams(search), name)
    IN  IF Len(values) > 0 THEN ArrayOf(values) ELSE Undefined

\* req.query(name)
queryFn(search, name) ==
    LET value == get(searchParams(search), name)
    IN  IF value = Null THEN Undefined ELSE value

ObjectOf(entries) == [type |-> "object", entries |-> entries]

FunctionOf(text) == [type |-> "function", text |-> text]

\* object[name] on an object literal: the own entry, else what the name
\* inherits from Object.prototype, else undefined
Member(object, name) ==
    IF name \in DOMAIN object.entries THEN StringOf(object.entries[name])
    ELSE IF \E k \in DOMAIN ObjectPrototype : name = <<k>>
    THEN FunctionOf(ObjectPrototype[CHOOSE k \in DOMAIN ObjectPrototype :
                                       name = <<k>>])
    ELSE Undefined

Assigned_first(pairs) ==
    [name \in {pairs[i].name : i \in 1..Len(pairs)} |->
        LET at == {i \in 1..Len(pairs) : pairs[i].name = name}
        IN  pairs[CHOOSE i \in at : \A j \in at : i <= j].value]

\* the entries of an object after object[pair.name] = pair.value for each
\* pair in order: a later assignment replaces an earlier one
Assigned(pairs) ==
    [name \in {pairs[i].name : i \in 1..Len(pairs)} |->
        LET at == {i \in 1..Len(pairs) : pairs[i].name = name}
        IN  pairs[CHOOSE i \in at : \A j \in at : j <= i].value]

\* req.query(): allParams after searchParams.forEach
allParams(search) == ObjectOf(Assigned(searchParams(search)))

RECURSIVE trim(_)
\* String.prototype.trim over spaces
trim(s) ==
    IF s # <<>> /\ Head(s) = " " THEN trim(Tail(s))
    ELSE IF s # <<>> /\ s[Len(s)] = " " THEN trim(SubSeq(s, 1, Len(s) - 1))
    ELSE s

\* a pair of the Cookie header: trimmed, split at the first "=", name and
\* value trimmed; kept when it has an "=" and a name
CookiePair(pair) ==
    LET trimmed == trim(pair)
        at == {i \in 1..Len(trimmed) : trimmed[i] = "="}
    IN  IF at = {} THEN <<>>
        ELSE LET equalsIndex == CHOOSE i \in at : \A j \in at : i <= j
                 name == trim(SubSeq(trimmed, 1, equalsIndex - 1))
                 value == trim(SubSeq(trimmed, equalsIndex + 1, Len(trimmed)))
             IN  IF name # <<>> THEN <<[name |-> name, value |-> value]>>
                 ELSE <<>>

RECURSIVE Flatten(_)
Flatten(seqs) ==
    IF seqs = <<>> THEN <<>> ELSE Head(seqs) \o Flatten(Tail(seqs))

\* parseCookies(): cookieHeader is <<>> when the request has no Cookie
\* header, else the one text of the header
parseCookies(cookieHeader) ==
    IF cookieHeader = <<>> \/ cookieHeader[1] = <<>>
    THEN ObjectOf([k \in {} |-> <<>>])
    ELSE LET pairs == SplitOn(cookieHeader[1], ";")
         IN  ObjectOf(Assigned(Flatten([i \in 1..Len(pairs) |->
                                           CookiePair(pairs[i])])))

\* req.cookie(name)
cookieFn(cookiesCache, name) == Member(cookiesCache, name)

\* a null body
NoContent == <<>>

\* res.html(content, status)
resHtml(c, content, status) ==
    NewResponse(content, status,
                Spread([k \in {"Content-Type"} |-> <<"text/html">>],
                       c.customHeaders))

\* res.null(status)
resNull(c, status) == NewResponse(NoContent, status, c.customHeaders)

\* res.redirect(location, status)
resRedirect(c, location, status) ==
    NewResponse(NoContent, status,
                Spread([k \in {"Location"} |-> location], c.customHeaders))

\* an option of res.cookie: <<>> when undefined, <<v>> when given as v
Given(option) == option # <<>>

RECURSIVE Join(_, _)
\* Array.prototype.join
Join(parts, separator) ==
    IF parts = <<>> THEN <<>>
    ELSE IF Len(parts) = 1 THEN Head(parts)
    ELSE Head(parts) \o separator \o Join(Tail(parts), separator)

\* the attribute for expiry: Max-Age before Expires
ExpiryParts_expiresFirst(options) ==
    IF Given(options.expires)
    THEN << <<"Expires=">> \o options.expires[1].utc >>
    ELSE IF Given(options.maxAge)
    THEN << <<"Max-Age=">> \o Decimal(options.maxAge[1]) >>
    ELSE <<>>

ExpiryParts(options) ==
    IF Given(options.maxAge)
    THEN << <<"Max-Age=">> \o Decimal(options.maxAge[1]) >>
    ELSE IF Given(options.expires)
    THEN << <<"Expires=">> \o options.expires[1].utc >>
    ELSE <<>>

\* the parts res.cookie pushes, in its order
CookieParts(key, value, options) ==
    << <<key, "=">> \o value >>
    \o ExpiryParts(options)
    \o (IF Given(options.domain)
        THEN << <<"Domain=">> \o options.domain[1] >> ELSE <<>>)
    \o (IF Given(options.path)
        THEN << <<"Path=">> \o options.path[1] >> ELSE <<>>)
    \o (IF options.secure = <<TRUE>> THEN << <<"Secure">> >> ELSE <<>>)
    \o (IF options.httpOnly = <<TRUE>> THEN << <<"HttpOnly">> >> ELSE <<>>)
    \o (IF Given(options.sameSite)
        THEN << <<"SameSite=">> \o options.sameSite[1] >> ELSE <<>>)

\* res.cookie(key, value, options)
resCookie(c, key, value, options) ==
    resHeader(c, "Set-Cookie",
              StringOf(Join(CookieParts(key, value, options), <<"; ">>)))

----------------------------------------------------------------------------
(* The application and its dispatches *)

VARIABLES
    router,            \* the entries registered in find-my-way
    globalMiddleware,  \* Ivy.globalMiddleware
    notFoundHandler,   \* Ivy.notFoundHandler is set
    phase,             \* per dispatch: idle, running, resolved, rejected
    request,           \* per dispatch: method and pathname of the request
    context,           \* per dispatch: the VixyContext built by fetch
    chain,             \* per dispatch: middlewares, index, response
    stack,             \* per dispatch: the pending next() and middleware calls
    signal,            \* per dispatch: the call, return or throw in progress
    result,            \* per dispatch: what fetch resolved or rejected with
    trace,             \* per dispatch: what user code ran, in order
    rawBody,           \* the body of the raw request of one context
    bodyUsed,          \* rawRequest.bodyUsed
    bodyCache,         \* VixyContext.bodyCache of that context
    rawReads,          \* how often rawRequest.arrayBuffer() was called
    calls,             \* the body accessor calls made on that context
    lastCall,          \* the last call user code made on context 1, its result
    history,           \* what setContext and res.header were last given, by key
    rawRequest         \* the request context 1 was built from: its URL

appVars == <<router, globalMiddleware, notFoundHandler>>

dispatchVars == <<phase, request, context, chain, stack, signal, result, trace>>

bodyVars == <<rawBody, bodyUsed, bodyCache, rawReads, calls>>

probeVars == <<lastCall, history, rawRequest>>

vars == <<router, globalMiddleware, notFoundHandler,
          phase, request, context, chain, stack, signal, result, trace,
          rawBody, bodyUsed, bodyCache, rawReads, calls, lastCall, history,
          rawRequest>>

DispatchIds == 1..MaxDispatch

Methods == {"GET", "POST"}

\* what a middleware function does with next
ContinuingKinds == {"pass", "nextReturn", "nextTwice", "catch"}

TerminalKinds == {"short", "throwError", "throwTagged", "stall"}

MiddlewareKinds == ContinuingKinds \cup TerminalKinds

HandlerKinds == {"respond", "throwString"}

\* an entry of a route's middleware list that is no function
NoMiddleware == [scope |-> "none", n |-> 0]

GlobalMw(n) == [scope |-> "global", n |-> n]

RouteMw(n) == [scope |-> "route", n |-> n]

\* the values a dispatch writes carry its own name
Tag(d, pos) == <<"d", NumStr(d), "m", NumStr(pos)>>

NoSignal == [mode |-> "none", value |-> Undefined]

IdleChain == [middlewares |-> <<>>, index |-> 0, response |-> Undefined]

\* what fetch read when it started: the request, whether a route matched,
\* the path and middleware of the route's store and the length of the global
\* list
FetchRecord(method, pathname, matched, path, middleware, globals) ==
    [method |-> method, pathname |-> pathname, matched |-> matched,
     path |-> path, middleware |-> middleware, globals |-> globals]

IdleRequest == FetchRecord("GET", <<>>, FALSE, <<>>, <<>>, 0)

\* a request without a body
NoBody == [present |-> FALSE, bytes |-> <<>>, contentType |-> <<>>]

\* this.bodyCache === null
NullCache == [set |-> FALSE, bytes |-> <<>>]

InitApp ==
    /\ router = {}
    /\ globalMiddleware = <<>>
    /\ notFoundHandler = FALSE
    /\ phase = [d \in DispatchIds |-> "idle"]
    /\ request = [d \in DispatchIds |-> IdleRequest]
    /\ context = [d \in DispatchIds |-> NewContext(NoParams, <<>>)]
    /\ chain = [d \in DispatchIds |-> IdleChain]
    /\ stack = [d \in DispatchIds |-> <<>>]
    /\ signal = [d \in DispatchIds |-> NoSignal]
    /\ result = [d \in DispatchIds |-> Undefined]
    /\ trace = [d \in DispatchIds |-> <<>>]

\* a call on the context: the method, its key, the text it was given or gave
\* back, its other argument and the response it built
ContextCall(op, key, text, arg, out) ==
    [op |-> op, key |-> key, text |-> text, arg |-> arg, out |-> out]

NoCall == ContextCall("none", "", <<>>, Undefined, Undefined)

NoHistory == [set |-> [k \in {} |-> <<>>], staged |-> [k \in {} |-> <<>>]]

\* a request by the pairs its query and its Cookie header are written from,
\* the query string and the Cookie header (<<>> without one)
RawRequest(pairs, search, cookie) ==
    [pairs |-> pairs, search |-> search, cookie |-> cookie]

\* a request for http://localhost/
PlainRequest == RawRequest(<<>>, <<>>, <<>>)

InitContextBody(body) ==
    /\ rawBody = body
    /\ bodyUsed = FALSE
    /\ bodyCache = NullCache
    /\ rawReads = 0
    /\ calls = <<>>

\* context 1 as constructed from a request, before any call on it
InitContext(req) ==
    /\ lastCall = NoCall
    /\ history = NoHistory
    /\ rawRequest = req

Init == InitApp /\ InitContextBody(NoBody) /\ InitContext(PlainRequest)

----------------------------------------------------------------------------
(* Registration *)

push_front(list, entry) == <<entry>> \o list

\* Array.prototype.push
push(list, entry) == Append(list, entry)

\* use(path, middleware): the function is named by its place in the list
use(path) ==
    /\ Len(globalMiddleware) < MaxGlobal
    /\ globalMiddleware' =
           push(globalMiddleware,
                [path |-> path,
                 middleware |-> GlobalMw(Len(globalMiddleware) + 1)])
    /\ UNCHANGED <<router, notFoundHandler>>
    /\ UNCHANGED dispatchVars
    /\ UNCHANGED bodyVars
    /\ UNCHANGED probeVars

\* the entry registerRoute hands to router.on
RouteEntry(method, path, middleware) ==
    [method |-> method,
     pattern |-> convertWildcardPath(path),
     store |-> [path |-> path, middleware |-> middleware]]

\* get/post/...(path, ...middleware, handler); router.on throws when the
\* method already has a route of that shape
registerRoute(method, path, middleware) ==
    /\ Cardinality(router) < MaxRoutes
    /\ \A r \in router :
          ~(r.method = method
            /\ Shape(r.pattern) = Shape(convertWildcardPath(path)))
    /\ router' = router \cup {RouteEntry(method, path, middleware)}
    /\ UNCHANGED <<globalMiddleware, notFoundHandler>>
    /\ UNCHANGED dispatchVars
    /\ UNCHANGED bodyVars
    /\ UNCHANGED probeVars

notFound ==
    /\ ~notFoundHandler
    /\ notFoundHandler' = TRUE
    /\ UNCHANGED <<router, globalMiddleware>>
    /\ UNCHANGED dispatchVars
    /\ UNCHANGED bodyVars
    /\ UNCHANGED probeVars

----------------------------------------------------------------------------
(* fetch *)

matchesMiddlewarePath_exact(middlewarePath, requestPath) ==
    middlewarePath = <<"*">> \/ middlewarePath = requestPath

\* Ivy.matchesMiddlewarePath
matchesMiddlewarePath(middlewarePath, requestPath) ==
    IF middlewarePath = <<"*">> THEN TRUE
    ELSE IF EndsWith(middlewarePath, <<"/", "*">>)
         THEN StartsWith(requestPath, SliceOff(middlewarePath, 2))
         ELSE middlewarePath = requestPath

ThisContext_shared(d) == 1

\* the context a dispatch works on: the instance fetch built for it
ThisContext(d) == d

VisibleParams_all(captures) == captures

\* the params fetch copies from route.params
VisibleParams(captures) ==
    [key \in {k \in DOMAIN captures : ~StartsWith(k, <<"wildcard">>)}
        |-> captures[key]]

RECURSIVE FilterGlobal(_, _)
\* the loop of fetch over this.globalMiddleware
FilterGlobal(entries, pathname) ==
    IF entries = <<>> THEN <<>>
    ELSE (IF matchesMiddlewarePath(Head(entries).path, pathname)
          THEN <<Head(entries).middleware>> ELSE <<>>)
         \o FilterGlobal(Tail(entries), pathname)

AllMiddleware_routeFirst(entries, pathname, middleware) ==
    middleware \o FilterGlobal(entries, pathname)

\* allMiddleware of fetch
AllMiddleware(entries, pathname, middleware) ==
    FilterGlobal(entries, pathname) \o middleware

NotFoundContext_withParams(pathname) ==
    NewContext([k \in {<<"path">>} |-> pathname], pathname)

\* the context fetch builds for the not-found handler
NotFoundContext(pathname) == NewContext(NoParams, pathname)

DefaultResponse_ok == NewResponse(<<"Not Found">>, 200, NoHeaders)

\* the response of fetch when nothing matched and no handler is set
DefaultResponse == NewResponse(<<"Not Found">>, 404, NoHeaders)

\* the context fetch builds for a matched route
RouteContext(route, pathname) ==
    NewContext(VisibleParams(Captures(route.pattern, pathname)),
               route.store.path)

\* an entry of the log of user code: what ran, what it read from the
\* context store and what it returned or threw
Event(ev, mw, kind, seen, value) ==
    [ev |-> ev, mw |-> mw, kind |-> kind, seen |-> seen, value |-> value]

Handler == [scope |-> "handler", n |-> 0]

NotFoundHandler == [scope |-> "notFound", n |-> 0]

\* the value a user function throws
Thrown(kind, c) ==
    CASE kind = "throwError" -> ErrorValue
      [] kind = "throwString" -> StringValue
      [] kind = "throwTagged" -> Sentinel(resText(c, <<"thrown">>, 500))

\* the response of a handler: the text names what it read from the context
HandlerResponse(c, who) == resText(c, <<who>> \o getContext(c, "user"), 200)

fetch(d, method, pathname) ==
    /\ phase[d] = "idle"
    /\ LET found == RouterFind(router, method, pathname) IN
       IF found # {}
       THEN \E route \in found :
               LET ctx == RouteContext(route, pathname)
                   all == AllMiddleware(globalMiddleware, pathname,
                                        route.store.middleware)
               IN  /\ phase' = [phase EXCEPT ![d] = "running"]
                   /\ request' = [request EXCEPT ![d] =
                          FetchRecord(method, pathname, TRUE,
                                      route.store.path,
                                      route.store.middleware,
                                      Len(globalMiddleware))]
                   /\ context' = [context EXCEPT ![ThisContext(d)] = ctx]
                   /\ chain' = [chain EXCEPT ![d] =
                          [middlewares |-> all, index |-> 0,
                           response |-> Undefined]]
                   /\ signal' = [signal EXCEPT ![d] =
                          [mode |-> "call", value |-> Undefined]]
                   /\ UNCHANGED <<stack, result, trace>>
       ELSE IF notFoundHandler
       THEN \E kind \in {"respond", "throwError"} :
               LET ctx == NotFoundContext(pathname)
                   out == IF kind = "respond"
                          THEN HandlerResponse(ctx, "notFound")
                          ELSE Thrown(kind, ctx)
               IN
               /\ request' = [request EXCEPT ![d] =
                      FetchRecord(method, pathname, FALSE, <<>>, <<>>,
                                  Len(globalMiddleware))]
               /\ context' = [context EXCEPT ![ThisContext(d)] = ctx]
               /\ trace' = [trace EXCEPT ![d] =
                      <<Event("handler", NotFoundHandler, kind,
                              getContext(ctx, "user"), out)>>]
               /\ phase' = [phase EXCEPT ![d] =
                      IF kind = "respond" THEN "resolved" ELSE "rejected"]
               /\ result' = [result EXCEPT ![d] = out]
               /\ UNCHANGED <<chain, stack, signal>>
       ELSE /\ phase' = [phase EXCEPT ![d] = "resolved"]
            /\ request' = [request EXCEPT ![d] =
                   FetchRecord(method, pathname, FALSE, <<>>, <<>>,
                               Len(globalMiddleware))]
            /\ result' = [result EXCEPT ![d] = DefaultResponse]
            /\ UNCHANGED <<context, chain, stack, signal, trace>>
    /\ UNCHANGED appVars
    /\ UNCHANGED bodyVars
    /\ UNCHANGED probeVars

----------------------------------------------------------------------------
(* executeMiddlewareChain *)

Frame(f, mw, kind, pc) == [f |-> f, mw |-> mw, kind |-> kind, pc |-> pc]

Push(st, fr) == <<fr>> \o st

Return(v) == [mode |-> "return", value |-> v]

Throw(v) == [mode |-> "throw", value |-> v]

Call == [mode |-> "call", value |-> Undefined]

\* the place of a function among all registered ones: global, then route
Place(mw) == IF mw.scope = "global" THEN mw.n ELSE MaxGlobal + mw.n

\* what a middleware does to the context before it decides about next:
\* a "pass" middleware stores a value of its own and stages a header
Enter(c, d, mw, kind) ==
    IF kind = "pass"
    THEN resHeader(setContext(c, "user", Tag(d, Place(mw))),
                   "X-Trace", StringOf(Tag(d, Place(mw))))
    ELSE c

\* the response a middleware returns
MiddlewareResponse(c, mw) == resJson(c, <<mw.scope, NumStr(mw.n)>>, 403)

\* the condition of the catch block of executeMiddlewareChain
IsTagged(error) ==
    /\ error.type = "object"
    /\ "__isResponse" \in DOMAIN error
    /\ "response" \in DOMAIN error

\* the cursor after next has taken a middleware
Advance(index) == index + 1

Middlewares_live(d) ==
    AllMiddleware(globalMiddleware, request[d].pathname, request[d].middleware)

\* the array the closure next reads: the one fetch built for the dispatch
Middlewares(d) == chain[d].middlewares

\* next(): the body of the closure up to its await
next(d, kinds, handlerKinds) ==
    /\ phase[d] = "running"
    /\ signal[d].mode = "call"
    /\ LET ch == chain[d]
           c == context[ThisContext(d)]
       IN
       IF ch.index >= Len(Middlewares(d))
       THEN \* response = await finalHandler(context)
            \E kind \in handlerKinds :
               LET out == IF kind = "respond"
                          THEN HandlerResponse(c, "handler")
                          ELSE Thrown(kind, c)
               IN
               /\ trace' = [trace EXCEPT ![d] =
                      Append(@, Event("handler", Handler, kind,
                                      getContext(c, "user"), out))]
               /\ IF kind = "respond"
                  THEN /\ chain' = [chain EXCEPT ![d].response = out]
                       /\ signal' = [signal EXCEPT ![d] = Return(Undefined)]
                  ELSE /\ signal' = [signal EXCEPT ![d] = Throw(out)]
                       /\ UNCHANGED chain
               /\ UNCHANGED <<context, stack>>
       ELSE LET mw == Middlewares(d)[ch.index + 1] IN
            /\ chain' = [chain EXCEPT ![d].index = Advance(@)]
            /\ IF mw = NoMiddleware
               THEN \* return next()
                    UNCHANGED <<context, stack, signal, trace>>
               ELSE \E kind \in kinds :
                       LET c2 == Enter(c, d, mw, kind)
                           out == CASE kind = "short" ->
                                         MiddlewareResponse(c2, mw)
                                    [] kind \in {"throwError", "throwTagged"} ->
                                         Thrown(kind, c2)
                                    [] OTHER -> Undefined
                       IN
                       /\ context' = [context EXCEPT ![ThisContext(d)] = c2]
                       /\ trace' = [trace EXCEPT ![d] =
                              Append(@, Event("pre", mw, kind,
                                              getContext(c, "user"), out))]
                       /\ IF kind \in ContinuingKinds
                          THEN /\ stack' = [stack EXCEPT ![d] =
                                      Push(Push(@, Frame("next", mw, kind, "await")),
                                           Frame("middleware", mw, kind, "await1"))]
                               /\ signal' = [signal EXCEPT ![d] = Call]
                          ELSE /\ stack' = [stack EXCEPT ![d] =
                                      Push(@, Frame("next", mw, kind, "await"))]
                               /\ signal' = [signal EXCEPT ![d] =
                                      IF kind \in {"short", "stall"}
                                      THEN Return(out) ELSE Throw(out)]
    /\ UNCHANGED <<phase, request, result>>
    /\ UNCHANGED appVars
    /\ UNCHANGED bodyVars
    /\ UNCHANGED probeVars

\* a middleware function continues after its await next()
resumeMiddleware(d) ==
    /\ phase[d] = "running"
    /\ signal[d].mode \in {"return", "throw"}
    /\ stack[d] # <<>>
    /\ Head(stack[d]).f = "middleware"
    /\ LET fr == Head(stack[d])
           c == context[ThisContext(d)]
           out == IF fr.kind = "nextReturn"
                  THEN MiddlewareResponse(c, fr.mw) ELSE Undefined
           post == Event("post", fr.mw, fr.kind, getContext(c, "user"), out)
       IN
       IF signal[d].mode = "throw" /\ fr.kind # "catch"
       THEN \* the rejection of next() leaves the function
            /\ stack' = [stack EXCEPT ![d] = Tail(@)]
            /\ UNCHANGED <<signal, trace>>
       ELSE IF fr.kind = "nextTwice" /\ fr.pc = "await1"
       THEN /\ stack' = [stack EXCEPT ![d] =
                   Push(Tail(@), Frame("middleware", fr.mw, fr.kind, "await2"))]
            /\ signal' = [signal EXCEPT ![d] = Call]
            /\ UNCHANGED trace
       ELSE /\ stack' = [stack EXCEPT ![d] = Tail(@)]
            /\ trace' = [trace EXCEPT ![d] = Append(@, post)]
            /\ signal' = [signal EXCEPT ![d] = Return(out)]
    /\ UNCHANGED <<phase, request, context, chain, result>>
    /\ UNCHANGED appVars
    /\ UNCHANGED bodyVars
    /\ UNCHANGED probeVars

AfterMiddleware_noThrow(sig) == sig

\* what next() does with the result of the middleware it awaited
AfterMiddleware(sig) ==
    IF sig.mode = "return" /\ sig.value # Undefined
    THEN Throw(Sentinel(sig.value))
    ELSE sig

\* next() continues after await middleware(context, next)
resumeNext(d) ==
    /\ phase[d] = "running"
    /\ signal[d].mode \in {"return", "throw"}
    /\ stack[d] # <<>>
    /\ Head(stack[d]).f = "next"
    /\ stack' = [stack EXCEPT ![d] = Tail(@)]
    /\ signal' = [signal EXCEPT ![d] = AfterMiddleware(@)]
    /\ UNCHANGED <<phase, request, context, chain, result, trace>>
    /\ UNCHANGED appVars
    /\ UNCHANGED bodyVars
    /\ UNCHANGED probeVars

\* the try/catch of executeMiddlewareChain around the first next()
Settled(sig, response) ==
    IF sig.mode = "return"
    THEN [phase |-> "resolved", value |-> response]
    ELSE IF IsTagged(sig.value)
         THEN [phase |-> "resolved", value |-> sig.value.response]
         ELSE [phase |-> "rejected", value |-> sig.value]

settle(d) ==
    /\ phase[d] = "running"
    /\ signal[d].mode \in {"return", "throw"}
    /\ stack[d] = <<>>
    /\ LET out == Settled(signal[d], chain[d].response) IN
       /\ phase' = [phase EXCEPT ![d] = out.phase]
       /\ result' = [result EXCEPT ![d] = out.value]
    /\ signal' = [signal EXCEPT ![d] = NoSignal]
    /\ UNCHANGED <<request, context, chain, stack, trace>>
    /\ UNCHANGED appVars
    /\ UNCHANGED bodyVars
    /\ UNCHANGED probeVars

----------------------------------------------------------------------------
(* The body accessors of one context (context.ts) *)

BodyAccessors == {"json", "text", "formData", "arrayBuffer", "blob"}

JsonBody ==
    [present |-> TRUE, bytes |-> <<"{", "a", ":", "1", "}">>,
     contentType |-> <<"application/json">>]

TextBody ==
    [present |-> TRUE, bytes |-> <<"hello">>, contentType |-> <<"text/plain">>]

FormBody ==
    [present |-> TRUE, bytes |-> <<"a", "=", "1">>,
     contentType |-> <<"application/x-www-form-urlencoded">>]

Bodies == {NoBody, JsonBody, TextBody, FormBody}

Outcome(status, value) == [status |-> status, value |-> value]

\* JSON.parse on the texts of the model: an object of at most one member
ParseJson(text) ==
    IF Len(text) = 2 /\ text[1] = "{" /\ text[2] = "}"
    THEN Outcome("ok", <<>>)
    ELSE IF Len(text) = 5 /\ text[1] = "{" /\ text[3] = ":" /\ text[5] = "}"
    THEN Outcome("ok", <<text[2], text[4]>>)
    ELSE Outcome("SyntaxError", <<>>)

\* Response.formData() on the bodies of the model
ParseForm(bytes, contentType) ==
    IF contentType # <<"application/x-www-form-urlencoded">>
    THEN Outcome("TypeError", <<>>)
    ELSE IF Len(bytes) = 3 /\ bytes[2] = "="
    THEN Outcome("ok", <<bytes[1], bytes[3]>>)
    ELSE Outcome("ok", <<>>)

\* what an accessor makes of the buffer getBodyCache gave it
Decode(kind, buffer, contentType) ==
    CASE kind = "json" -> ParseJson(buffer)
      [] kind = "text" -> Outcome("ok", buffer)
      [] kind = "formData" -> ParseForm(buffer, contentType)
      [] kind = "arrayBuffer" -> Outcome("ok", buffer)
      [] kind = "blob" -> Outcome("ok", buffer)

BodyCall(kind, pc, read, buffer, alone, outcome) ==
    [kind |-> kind, pc |-> pc, read |-> read, buffer |-> buffer,
     alone |-> alone, outcome |-> outcome]

Pending == Outcome("pending", <<>>)

CacheAfterRead_none(cache, bytes) == cache

CacheAfterRead_empty(cache, bytes) == [set |-> TRUE, bytes |-> <<>>]

\* this.bodyCache = await rawRequest.arrayBuffer()
CacheAfterRead(cache, bytes) == [set |-> TRUE, bytes |-> bytes]

\* req.json(), req.text(), ...: the accessor up to the await of getBodyCache.
\* With an empty cache getBodyCache calls rawRequest.arrayBuffer(), which
\* rejects when the body was already used and otherwise marks it used
startCall(kind) ==
    /\ Len(calls) < MaxCalls
    /\ LET alone == \A i \in 1..Len(calls) : calls[i].pc = "done" IN
       IF ~bodyCache.set
       THEN /\ rawReads' = rawReads + 1
            /\ bodyUsed' = (bodyUsed \/ rawBody.present)
            /\ calls' = Append(calls,
                   BodyCall(kind, "reading",
                            IF bodyUsed THEN "used" ELSE "ok",
                            <<>>, alone, Pending))
       ELSE /\ calls' = Append(calls,
                   BodyCall(kind, "cached", "none", bodyCache.bytes, alone,
                            Pending))
            /\ UNCHANGED <<rawReads, bodyUsed>>
    /\ UNCHANGED <<rawBody, bodyCache>>
    /\ UNCHANGED appVars
    /\ UNCHANGED dispatchVars
    /\ UNCHANGED probeVars

\* the accessor continues after the await of getBodyCache
resumeCall(i) ==
    /\ i \in 1..Len(calls)
    /\ calls[i].pc # "done"
    /\ LET call == calls[i] IN
       IF call.pc = "reading" /\ call.read = "used"
       THEN /\ calls' = [calls EXCEPT ![i].pc = "done",
                                      ![i].outcome = Outcome("BodyUsed", <<>>)]
            /\ UNCHANGED bodyCache
       ELSE IF call.pc = "reading"
       THEN LET cache == CacheAfterRead(bodyCache, rawBody.bytes)
                buffer == IF cache.set THEN cache.bytes ELSE <<>>
            IN  /\ bodyCache' = cache
                /\ calls' = [calls EXCEPT ![i].pc = "done",
                                          ![i].buffer = buffer,
                                          ![i].outcome =
                                              Decode(call.kind, buffer,
                                                     rawBody.contentType)]
       ELSE /\ calls' = [calls EXCEPT ![i].pc = "done",
                                      ![i].outcome =
                                          Decode(call.kind, call.buffer,
                                                 rawBody.contentType)]
            /\ UNCHANGED bodyCache
    /\ UNCHANGED <<rawBody, bodyUsed, rawReads>>
    /\ UNCHANGED appVars
    /\ UNCHANGED dispatchVars
    /\ UNCHANGED probeVars

----------------------------------------------------------------------------
(* User code calling the methods of one context (context 1) *)

Builders == {"text", "json", "html", "null", "redirect"}

Default_ignored(given, value) == value

\* a parameter with a default value (status = 200): the default when the
\* argument is undefined
Default(given, value) == IF given = Undefined THEN value ELSE given.n

\* c.res.text("Hello", status), c.res.json(..., status), c.res.html(...),
\* c.res.null(status), c.res.redirect("/login", status)
BuildWith(c, builder, status) ==
    CASE builder = "text" -> resText(c, <<"Hello">>, Default(status, 200))
      [] builder = "json" -> resJson(c, <<"{}">>, Default(status, 200))
      [] builder = "html" ->
            resHtml(c, <<"<h1>Hello</h1>">>, Default(status, 200))
      [] builder = "null" -> resNull(c, Default(status, 204))
      [] builder = "redirect" ->
            resRedirect(c, <<"/login">>, Default(status, 302))

\* the builders called without a status
Build(c, builder) == BuildWith(c, builder, Undefined)

\* a status user code passes to a builder
ExplicitStatus(builder) ==
    CASE builder \in {"text", "json", "html"} -> NumberOf(201)
      [] builder = "null" -> NumberOf(205)
      [] builder = "redirect" -> NumberOf(301)

\* c.req.setContext(key, value)
callSetContext(key, value) ==
    /\ context' = [context EXCEPT ![1] = setContext(@, key, value)]
    /\ lastCall' = ContextCall("setContext", key, value, Undefined, Undefined)
    /\ history' = [history EXCEPT !.set = Spread(@, [k \in {key} |-> value])]
    /\ UNCHANGED <<phase, request, chain, stack, signal, result, trace>>
    /\ UNCHANGED rawRequest
    /\ UNCHANGED appVars
    /\ UNCHANGED bodyVars

\* c.req.getContext(key)
callGetContext(key) ==
    /\ lastCall' = ContextCall("getContext", key, getContext(context[1], key),
                               Undefined, Undefined)
    /\ UNCHANGED <<history, rawRequest>>
    /\ UNCHANGED dispatchVars
    /\ UNCHANGED appVars
    /\ UNCHANGED bodyVars

\* c.res.header(key, value); text is the string form of value
callHeader(key, value, text) ==
    /\ context' = [context EXCEPT ![1] = resHeader(@, key, value)]
    /\ lastCall' = ContextCall("header", key, text, value, Undefined)
    /\ history' = [history EXCEPT !.staged = Spread(@, [k \in {key} |-> text])]
    /\ UNCHANGED <<phase, request, chain, stack, signal, result, trace>>
    /\ UNCHANGED rawRequest
    /\ UNCHANGED appVars
    /\ UNCHANGED bodyVars

\* c.res.cookie(key, value, options)
callCookie(key, value, options) ==
    /\ context' = [context EXCEPT ![1] = resCookie(@, key, value, options)]
    /\ lastCall' = ContextCall("cookie", key, value, options, Undefined)
    /\ history' = [history EXCEPT !.staged =
           Spread(@, [k \in {"Set-Cookie"} |->
                        context'[1].customHeaders["Set-Cookie"]])]
    /\ UNCHANGED <<phase, request, chain, stack, signal, result, trace>>
    /\ UNCHANGED rawRequest
    /\ UNCHANGED appVars
    /\ UNCHANGED bodyVars

\* c.req.queries(name)
callQueries(name) ==
    /\ lastCall' = ContextCall("queries", "", name, Undefined,
                               queries(rawRequest.search, name))
    /\ UNCHANGED <<history, rawRequest>>
    /\ UNCHANGED dispatchVars
    /\ UNCHANGED appVars
    /\ UNCHANGED bodyVars

\* c.req.query(name)
callQuery(name) ==
    /\ lastCall' = ContextCall("query", "", name, Undefined,
                               queryFn(rawRequest.search, name))
    /\ UNCHANGED <<history, rawRequest>>
    /\ UNCHANGED dispatchVars
    /\ UNCHANGED appVars
    /\ UNCHANGED bodyVars

\* c.req.query()
callQueryAll ==
    /\ lastCall' = ContextCall("queryAll", "", <<>>, Undefined,
                               allParams(rawRequest.search))
    /\ UNCHANGED <<history, rawRequest>>
    /\ UNCHANGED dispatchVars
    /\ UNCHANGED appVars
    /\ UNCHANGED bodyVars

\* c.req.cookie(name)
callReqCookie(name) ==
    /\ lastCall' = ContextCall("reqCookie", "", name, Undefined,
                               cookieFn(parseCookies(rawRequest.cookie), name))
    /\ UNCHANGED <<history, rawRequest>>
    /\ UNCHANGED dispatchVars
    /\ UNCHANGED appVars
    /\ UNCHANGED bodyVars

\* c.req.cookie()
callReqCookies ==
    /\ lastCall' = ContextCall("reqCookies", "", <<>>, Undefined,
                               parseCookies(rawRequest.cookie))
    /\ UNCHANGED <<history, rawRequest>>
    /\ UNCHANGED dispatchVars
    /\ UNCHANGED appVars
    /\ UNCHANGED bodyVars

\* c.res.text(...), c.res.json(...), ...
callBuilder(builder, status) ==
    /\ lastCall' = ContextCall(builder, "", <<>>, status,
                               BuildWith(context[1], builder, status))
    /\ UNCHANGED <<history, rawRequest>>
    /\ UNCHANGED dispatchVars
    /\ UNCHANGED appVars
    /\ UNCHANGED bodyVars

----------------------------------------------------------------------------
(* Paths used by the specifications *)

Star == <<"*">>

ApiStar == <<"/", "api", "/", "*">>

Users == <<"/", "users">>

ApiUsers == <<"/", "api", "/", "users">>

Missing == <<"/", "missing">>

UserId == <<"/", "users", "/", ":", "id">>

FilesDownload == <<"/", "files", "/", "*", "/", "download">>

FilesAny == <<"/", "files", "/", "*", "/", "*">>

Users42 == <<"/", "users", "/", "42">>

FilesAbcDownload == <<"/", "files", "/", "abc", "/", "download">>

FilesAbcRaw == <<"/", "files", "/", "abc", "/", "raw">>

\* a user parameter whose name begins with "wildcard"
ItemsWildcardId == <<"/", "items", "/", ":", "wildcard", "Id">>

Items7 == <<"/", "items", "/", "7">>

\* "/apiary": shares the characters of "/api" without being below it
Apiary == <<"/", "api", "ary">>

\* the middleware lists a route is registered with: functions named by
\* their place, or an entry that is no function
RECURSIVE RouteMwSeqs(_)
RouteMwSeqs(n) ==
    IF n = 0 THEN {<<>>}
    ELSE LET shorter == RouteMwSeqs(n - 1) IN
         shorter \cup {Append(s, m) : s \in {t \in shorter : Len(t) = n - 1},
                                       m \in {RouteMw(n), NoMiddleware}}

----------------------------------------------------------------------------
(* Spec: one application, the chain executor under every middleware kind *)

Register ==
    \/ \E path \in {Star, ApiStar} : use(path)
    \/ \E path \in {Users}, mws \in RouteMwSeqs(MaxRouteMw) :
          registerRoute("GET", path, mws)
    \/ notFound

Run(d) ==
    \/ next(d, MiddlewareKinds, HandlerKinds)
    \/ resumeMiddleware(d)
    \/ resumeNext(d)
    \/ settle(d)

Next ==
    \/ Register
    \/ \E path \in {Users, Missing} : fetch(1, "GET", path)
    \/ Run(1)

Spec == Init /\ [][Next]_vars

----------------------------------------------------------------------------
(* SpecRoute: the route table under several patterns and both methods *)

RoutePatterns == {Users, UserId, FilesDownload, FilesAny, ItemsWildcardId}

RequestPaths == {Users, Users42, FilesAbcDownload, FilesAbcRaw, Items7, Missing}

NextRoute ==
    \/ use(Star)
    \/ \E method \in Methods, path \in RoutePatterns :
          registerRoute(method, path, <<>>)
    \/ notFound
    \/ \E method \in Methods, path \in RequestPaths : fetch(1, method, path)
    \/ next(1, {"pass", "short"}, {"respond"})
    \/ resumeMiddleware(1)
    \/ resumeNext(1)
    \/ settle(1)

SpecRoute == Init /\ [][NextRoute]_vars

----------------------------------------------------------------------------
(* SpecUse: global middleware under several registration paths *)

UsePaths == {Star, ApiStar, Users}

UseRoutes == {Users, ApiUsers, Apiary}

NextUse ==
    \/ \E path \in UsePaths : use(path)
    \/ \E path \in UseRoutes : registerRoute("GET", path, <<>>)
    \/ \E path \in UseRoutes : fetch(1, "GET", path)
    \/ next(1, {"pass"}, {"respond"})
    \/ resumeMiddleware(1)
    \/ resumeNext(1)
    \/ settle(1)

SpecUse == Init /\ [][NextUse]_vars

----------------------------------------------------------------------------
(* SpecConc: several dispatches in flight on one application *)

NextConc ==
    \/ use(Star)
    \/ registerRoute("GET", Users, <<>>)
    \/ \E d \in DispatchIds :
          \/ fetch(d, "GET", Users)
          \/ next(d, {"pass", "short"}, {"respond"})
          \/ resumeMiddleware(d)
          \/ resumeNext(d)
          \/ settle(d)

SpecConc == Init /\ [][NextConc]_vars

----------------------------------------------------------------------------
(* SpecContext: the context store, staged headers and builders of a context *)

ContextKeys == {"user", "requestId", "constructor"}

ContextValues == {<<"first">>, <<"second">>}

HeaderKeys == {"X-Custom", "Content-Type", "Location"}

\* values given to res.header, each with its string form
HeaderInputs ==
    {[value |-> StringOf(<<"third">>), text |-> <<"third">>],
     [value |-> NumberOf(123), text |-> <<"1", "2", "3">>],
     [value |-> BooleanOf(TRUE), text |-> <<"true">>],
     [value |-> Null, text |-> <<"null">>]}

NextContext ==
    \/ \E key \in ContextKeys, value \in ContextValues : callSetContext(key, value)
    \/ \E key \in ContextKeys : callGetContext(key)
    \/ \E key \in HeaderKeys, input \in HeaderInputs :
          callHeader(key, input.value, input.text)
    \/ \E builder \in Builders :
          \E status \in {Undefined, ExplicitStatus(builder)} :
             callBuilder(builder, status)

SpecContext == Init /\ [][NextContext]_vars

----------------------------------------------------------------------------
(* SpecCookie: res.cookie under every combination of options *)

CookieKeys == {"session", "theme"}

CookieValues == {<<"abc123">>}

\* new Date("2026-12-31T23:59:59Z")
Expires == [utc |-> <<"Thu, 31 Dec 2026 23:59:59 GMT">>]

CookieOptions ==
    [maxAge : {<<>>, <<0>>, <<3600>>},
     expires : {<<>>, <<Expires>>},
     domain : {<<>>, << <<"example.com">> >>},
     path : {<<>>, << <<"/">> >>},
     secure : {<<>>, <<TRUE>>, <<FALSE>>},
     httpOnly : {<<>>, <<TRUE>>, <<FALSE>>},
     sameSite : {<<>>, << <<"Strict">> >>}]

NextCookie ==
    \/ \E key \in CookieKeys, value \in CookieValues, options \in CookieOptions :
          callCookie(key, value, options)
    \/ \E builder \in Builders : callBuilder(builder, Undefined)

SpecCookie == Init /\ [][NextCookie]_vars

----------------------------------------------------------------------------
(* SpecQuery: the query and cookie accessors over the requests written from
   a sequence of pairs, once as the query string and once as the Cookie
   header *)

QueryNames == {<<"tag">>, <<"q">>}

\* a pair: written name=value ("eq"), as the bare name ("bare"), with spaces
\* around the name and the value in the Cookie header ("spaced"), or with an
\* empty name
QueryPairs ==
    [name : {<<"tag">>}, value : {<<"A">>, <<"B">>, <<>>}, form : {"eq"}]
        \cup [name : {<<"q">>}, value : {<<"A">>}, form : {"eq"}]
        \cup [name : {<<"tag">>}, value : {<<>>}, form : {"bare"}]
        \cup [name : {<<"tag">>}, value : {<<"A">>}, form : {"spaced"}]
        \cup [name : {<<>>}, value : {<<"A">>}, form : {"eq"}]

RECURSIVE QueryInputs(_)
\* the sequences of at most n pairs
QueryInputs(n) ==
    IF n = 0 THEN {<<>>}
    ELSE LET shorter == QueryInputs(n - 1) IN
         shorter \cup {Append(s, pair) : s \in {t \in shorter : Len(t) = n - 1},
                                          pair \in QueryPairs}

\* the query string that spells a sequence of pairs
SearchOf(pairs) ==
    Join([i \in 1..Len(pairs) |->
             IF pairs[i].form = "bare" THEN pairs[i].name
             ELSE pairs[i].name \o <<"=">> \o pairs[i].value],
         <<"&">>)

\* the Cookie header that spells a sequence of pairs, none without pairs
CookieOf(pairs) ==
    IF pairs = <<>> THEN <<>>
    ELSE << Join([i \in 1..Len(pairs) |->
                    CASE pairs[i].form = "bare" -> pairs[i].name
                      [] pairs[i].form = "spaced" ->
                            <<" ">> \o pairs[i].name \o <<" ", "=", " ">>
                                \o pairs[i].value \o <<" ">>
                      [] OTHER -> pairs[i].name \o <<"=">> \o pairs[i].value],
                 <<";", " ">>) >>

InitQuery ==
    /\ InitApp
    /\ InitContextBody(NoBody)
    /\ \E pairs \in QueryInputs(MaxPairs) :
          InitContext(RawRequest(pairs, SearchOf(pairs), CookieOf(pairs)))

CookieNames == QueryNames \cup {<<"missing">>, <<"constructor">>}

NextQuery ==
    \/ \E name \in QueryNames \cup {<<"missing">>} : callQueries(name)
    \/ \E name \in QueryNames \cup {<<"missing">>} : callQuery(name)
    \/ callQueryAll
    \/ \E name \in CookieNames : callReqCookie(name)
    \/ callReqCookies

SpecQuery == InitQuery /\ [][NextQuery]_vars

----------------------------------------------------------------------------
(* SpecBody: the body accessors of one context, calls overlapping or not *)

InitBody ==
    /\ InitApp
    /\ \E body \in Bodies : InitContextBody(body)
    /\ InitContext(PlainRequest)

NextBody ==
    \/ \E kind \in BodyAccessors : startCall(kind)
    \/ \E i \in 1..MaxCalls : resumeCall(i)

SpecBody == InitBody /\ [][NextBody]_vars

----------------------------------------------------------------------------
(* Properties of the chain executor *)

Matched(d) == phase[d] # "idle" /\ request[d].matched

Settling(d) == phase[d] \in {"resolved", "rejected"}

\* the events of a dispatch by what ran, without the values
Ran(d) == [i \in 1..Len(trace[d]) |-> <<trace[d][i].ev, trace[d][i].mw>>]

IsPrefix(s, t) == Len(s) <= Len(t) /\ SubSeq(t, 1, Len(s)) = s

RECURSIVE Reverse(_)
Reverse(s) == IF s = <<>> THEN <<>> ELSE Append(Reverse(Tail(s)), Head(s))

\* g1..gN: the functions registered with use() before the request whose path
\* matches the request path, in registration order
MatchingGlobals(d) ==
    LET known == SubSeq(globalMiddleware, 1, request[d].globals)
        hit == SelectSeq(known,
                   LAMBDA e : matchesMiddlewarePath(e.path, request[d].pathname))
    IN  [i \in 1..Len(hit) |-> hit[i].middleware]

\* r1..rM: the functions in the route's own list, in the order passed
RouteFunctions(d) ==
    SelectSeq(request[d].middleware, LAMBDA m : m # NoMiddleware)

Onion(mws) ==
    [i \in 1..Len(mws) |-> <<"pre", mws[i]>>]
        \o <<<<"handler", Handler>>>>
        \o [i \in 1..Len(mws) |-> <<"post", Reverse(mws)[i]>>]

\* every function that ran so far awaited next() once and returned nothing,
\* and the handler returned a response
AllAwaitNext(d) ==
    \A i \in 1..Len(trace[d]) :
       trace[d][i].kind = IF trace[d][i].ev = "handler" THEN "respond" ELSE "pass"

\* C1: when every middleware awaits next(), user code runs in the order
\* g1..gN, r1..rM, handler, rM..r1, gN..g1; nothing runs out of that order at
\* any time and the dispatch resolves once all of it has run
C1_OnionOrder ==
    \A d \in DispatchIds :
       (Matched(d) /\ AllAwaitNext(d)) =>
          /\ IsPrefix(Ran(d), Onion(MatchingGlobals(d) \o RouteFunctions(d)))
          /\ phase[d] # "rejected"
          /\ phase[d] = "resolved" =>
                Ran(d) = Onion(MatchingGlobals(d) \o RouteFunctions(d))

C1_Witness ==
    /\ phase[1] = "resolved"
    /\ Matched(1) /\ AllAwaitNext(1)
    /\ Len(MatchingGlobals(1)) = MaxGlobal
    /\ Len(RouteFunctions(1)) = MaxRouteMw
    /\ Len(trace[1]) = 2 * (MaxGlobal + MaxRouteMw) + 1

\* the places of the log where a middleware returned a response without
\* calling next
ShortCircuits(d) ==
    {i \in 1..Len(trace[d]) : trace[d][i].ev = "pre" /\ trace[d][i].kind = "short"}

\* no middleware and no handler starts after place i of the log
NothingStartsAfter(d, i) ==
    \A j \in (i + 1)..Len(trace[d]) : trace[d][j].ev = "post"

\* a middleware that ran before place i catches what its next() throws
CaughtAbove(d, i) ==
    \E j \in 1..(i - 1) : trace[d][j].ev = "pre" /\ trace[d][j].kind = "catch"

\* C2 as stated: a middleware that returns a response without calling next
\* stops the chain and fetch resolves with exactly that response
C2_ShortCircuitIsResult ==
    \A d \in DispatchIds : \A i \in ShortCircuits(d) :
       /\ NothingStartsAfter(d, i)
       /\ phase[d] # "rejected"
       /\ phase[d] = "resolved" => result[d] = trace[d][i].value

\* the places of the log where user code threw
Throws(d) ==
    {i \in 1..Len(trace[d]) :
        trace[d][i].kind \in {"throwError", "throwString", "throwTagged"}}

\* C3: a value thrown by a middleware or by the handler leaves fetch as it
\* is: fetch rejects with exactly that value and nothing later starts (stated
\* for chains in which no middleware catches the value itself)
C3_ThrownValuePropagates ==
    \A d \in DispatchIds : \A i \in Throws(d) :
       ~CaughtAbove(d, i) =>
          /\ NothingStartsAfter(d, i)
          /\ phase[d] # "resolved"
          /\ phase[d] = "rejected" => result[d] = trace[d][i].value

\* C13: a fetch that completes either resolves with a Response or rejects
\* with a value that user code threw, whatever the middleware of the chain do:
\* continue, short-circuit, throw, or return nothing without calling next
C13_ResponseOrError ==
    \A d \in DispatchIds :
       /\ phase[d] = "resolved" => IsResponse(result[d])
       /\ phase[d] = "rejected" =>
             \E i \in Throws(d) : result[d] = trace[d][i].value

\* the places of the log before place j where a middleware stored a value
Stores(d, j) ==
    {i \in 1..(j - 1) : trace[d][i].ev = "pre" /\ trace[d][i].kind = "pass"}

\* what the store holds under "user" when the code of place j starts: the
\* value of the latest setContext before it, absent if there was none
LastStored(d, j) ==
    IF Stores(d, j) = {} THEN Absent
    ELSE LET i == CHOOSE i \in Stores(d, j) : \A k \in Stores(d, j) : k <= i
         IN  Tag(d, Place(trace[d][i].mw))

\* C14: within one dispatch, what a middleware stored with setContext before
\* calling next() is what getContext returns in every later middleware and in
\* the handler, until a later setContext of the same request overwrites it
C14_ContextFlowsDownstream ==
    \A d \in DispatchIds :
       \A j \in 1..Len(trace[d]) : trace[d][j].seen = LastStored(d, j)

C14_Witness ==
    /\ phase[1] = "resolved"
    /\ Len(trace[1]) >= 4
    /\ trace[1][1].kind = "pass" /\ trace[1][1].mw = GlobalMw(1)
    /\ trace[1][2].kind = "catch" /\ trace[1][2].seen = Tag(1, 1)
    /\ trace[1][3].kind = "pass" /\ trace[1][3].mw = RouteMw(1)
    /\ trace[1][3].seen = Tag(1, 1)
    /\ trace[1][4].ev = "handler" /\ trace[1][4].seen = Tag(1, Place(RouteMw(1)))

----------------------------------------------------------------------------
(* Properties of global middleware *)

\* the rule for a registration path p and a request path q, token by token
PrefixRule(p, q) ==
    \/ p = <<"*">>
    \/ /\ Len(p) >= 2 /\ p[Len(p) - 1] = "/" /\ p[Len(p)] = "*"
       /\ Len(q) >= Len(p) - 2
       /\ \A i \in 1..(Len(p) - 2) : q[i] = p[i]
    \/ p = q

InChain(d, mw) == \E i \in 1..Len(chain[d].middlewares) : chain[d].middlewares[i] = mw

HasRun(d, mw) == \E i \in 1..Len(trace[d]) : trace[d][i].ev = "pre" /\ trace[d][i].mw = mw

\* C12: a function registered with use(p, m) before the request is in the
\* chain of a matched request with path q exactly when p is "*", or p ends in
\* "/*" and q starts with p less its last two characters, or p = q, and has
\* run by the time the dispatch resolves exactly then; one registered with
\* "/api/*" is in the chain for /api/users and not for /users
C12_GlobalPathRule ==
    \A d \in DispatchIds :
       Matched(d) =>
          \A n \in 1..request[d].globals :
             LET p == globalMiddleware[n].path
                 q == request[d].pathname
             IN  /\ InChain(d, GlobalMw(n)) <=> PrefixRule(p, q)
                 /\ phase[d] = "resolved" =>
                       (HasRun(d, GlobalMw(n)) <=> PrefixRule(p, q))
                 /\ (p = ApiStar /\ q = ApiUsers) => InChain(d, GlobalMw(n))
                 /\ (p = ApiStar /\ q = Users) => ~InChain(d, GlobalMw(n))

C12_Witness ==
    /\ phase[1] = "resolved" /\ Matched(1)
    /\ request[1].pathname = ApiUsers
    /\ request[1].globals = 2
    /\ globalMiddleware[1].path = ApiStar /\ globalMiddleware[2].path = Users
    /\ HasRun(1, GlobalMw(1)) /\ ~HasRun(1, GlobalMw(2))

----------------------------------------------------------------------------
(* Properties of concurrent dispatches *)

\* a value is absent or was written by dispatch d
OwnValue(d, v) == v = Absent \/ (Len(v) = 4 /\ v[2] = NumStr(d))

\* C6: dispatches in flight together do not see each other: whatever a
\* middleware or handler of dispatch d reads from the context store, and every
\* staged header in a response d builds, was written by d itself, and d runs
\* its own chain in order whatever the other dispatches do
C6_DispatchIsolation ==
    \A d \in DispatchIds :
       /\ \A i \in 1..Len(trace[d]) :
             /\ OwnValue(d, trace[d][i].seen)
             /\ IsResponse(trace[d][i].value) =>
                   \A h \in DOMAIN trace[d][i].value.headers \ {"Content-Type"} :
                      OwnValue(d, trace[d][i].value.headers[h])
       /\ (Matched(d) /\ AllAwaitNext(d)) =>
             /\ IsPrefix(Ran(d), Onion(MatchingGlobals(d) \o RouteFunctions(d)))
             /\ Settling(d) => Len(Ran(d)) = 2 * Len(MatchingGlobals(d) \o RouteFunctions(d)) + 1

C6_Witness ==
    /\ phase[1] = "running" /\ phase[2] = "running"
    /\ chain[1].index >= 1 /\ chain[2].index >= 2
    /\ "X-Trace" \in DOMAIN context[1].customHeaders
    /\ "X-Trace" \in DOMAIN context[2].customHeaders
    /\ getContext(context[1], "user") # getContext(context[2], "user")

----------------------------------------------------------------------------
(* Properties of routing *)

\* dispatch d starts in this step
Starts(d) == phase[d] = "idle" /\ phase'[d] # "idle"

\* no registered route has the method and a pattern matching the path
NoRouteFor(method, pathname) ==
    ~\E r \in router : r.method = method /\ PatternMatches(r.pattern, pathname)

\* C7: when no route matches and a not-found handler is registered, fetch
\* calls that handler directly with empty params and returns its result; no
\* middleware runs and the chain is not used
C7_NotFoundHandlerDirect ==
    [][\A d \in DispatchIds :
          (/\ Starts(d)
           /\ NoRouteFor(request'[d].method, request'[d].pathname)
           /\ notFoundHandler)
          => /\ context'[d].params = NoParams
             /\ Len(trace'[d]) = 1
             /\ trace'[d][1].mw = NotFoundHandler
             /\ result'[d] = trace'[d][1].value
             /\ phase'[d] = IF trace'[d][1].kind = "respond"
                            THEN "resolved" ELSE "rejected"
             /\ chain'[d] = IdleChain /\ stack'[d] = <<>>]_vars

C7_Witness ==
    /\ phase[1] = "resolved"
    /\ ~request[1].matched
    /\ request[1].globals >= 1
    /\ globalMiddleware[1].path = Star
    /\ NoRouteFor(request[1].method, request[1].pathname)
    /\ Len(trace[1]) = 1 /\ trace[1][1].mw = NotFoundHandler
    /\ context[1].params = NoParams

\* C8: when no route is registered for the method and path and no not-found
\* handler is set, fetch resolves with status 404 and body "Not Found", and
\* no handler and no middleware runs
C8_DefaultNotFound ==
    [][\A d \in DispatchIds :
          (/\ Starts(d)
           /\ NoRouteFor(request'[d].method, request'[d].pathname)
           /\ ~notFoundHandler)
          => /\ phase'[d] = "resolved"
             /\ result'[d].status = 404
             /\ result'[d].body = <<"Not Found">>
             /\ trace'[d] = <<>>
             /\ chain'[d] = IdleChain /\ stack'[d] = <<>>]_vars

C8_Witness ==
    /\ phase[1] = "resolved"
    /\ ~notFoundHandler
    /\ request[1].method = "POST"
    /\ \E r \in router :
          r.method = "GET" /\ PatternMatches(r.pattern, request[1].pathname)
    /\ NoRouteFor(request[1].method, request[1].pathname)
    /\ request[1].globals >= 1
    /\ result[1].status = 404 /\ result[1].body = <<"Not Found">>
    /\ trace[1] = <<>>

\* the context's routePathname is a pattern as registered, of a route with the
\* request's method that matches the request path
IsRegisteredPattern(d) ==
    \E r \in router :
       /\ r.method = request[d].method
       /\ r.store.path = context[d].routePathname
       /\ PatternMatches(convertWildcardPath(r.store.path), request[d].pathname)

HasStar(path) == \E i \in 1..Len(path) : path[i] = "*"

\* C9: routePathname is the registered pattern (with * intact) for a matched
\* request, and the empty string in the context of the not-found handler
C9_RoutePathname ==
    \A d \in DispatchIds :
       phase[d] # "idle" =>
          IF request[d].matched
          THEN IsRegisteredPattern(d)
          ELSE trace[d] # <<>> => context[d].routePathname = <<>>

\* the names convertWildcardPath gives to the captures of "*"
IsSynthetic(key) ==
    Len(key) = 2 /\ key[1] = "wildcard" /\ key[2] \in DigitTokens

\* C10: for a matched pattern with one or more "*", the params of the context
\* that middleware and handler work on have no key wildcard1, wildcard2, ...,
\* and routePathname is the pattern as registered
C10_NoSyntheticParams ==
    \A d \in DispatchIds :
       (Matched(d) /\ HasStar(request[d].path)) =>
          /\ \A key \in DOMAIN context[d].params : ~IsSynthetic(key)
          /\ context[d].routePathname = request[d].path
          /\ IsRegisteredPattern(d)

C10_Witness ==
    /\ phase[1] = "resolved"
    /\ Matched(1)
    /\ request[1].path = FilesAny
    /\ context[1].routePathname = FilesAny
    /\ context[1].params = NoParams
    /\ Len(trace[1]) = 3
    /\ trace[1][1].ev = "pre" /\ trace[1][2].ev = "handler"

\* the places of a registered path where the user declared a :name segment
DeclaredParams(path) ==
    {i \in 1..Len(Segments(path)) : IsParamSegment(Segments(path)[i])}

\* C11: for a matched route, params holds every capture of a :name segment
\* the user declared, with the segment of the request path it matched, also
\* when the name merely begins with "wildcard"
C11_UserParamsExposed ==
    \A d \in DispatchIds :
       Matched(d) =>
          \A i \in DeclaredParams(request[d].path) :
             LET name == Tail(Segments(request[d].path)[i]) IN
             /\ name \in DOMAIN context[d].params
             /\ context[d].params[name] = Segments(request[d].pathname)[i]

----------------------------------------------------------------------------
(* Properties of the context store and the staged headers *)

\* C15: getContext(k) returns what the most recent setContext(k, ...) on the
\* context stored, and undefined for every key that was never set; a
\* setContext on one key changes the value of no other key
C15_GetAfterSet ==
    lastCall.op = "getContext" =>
       lastCall.text = IF lastCall.key \in DOMAIN history.set
                       THEN history.set[lastCall.key] ELSE Absent

\* C16: a response built by text, json, html, null or redirect carries, for
\* each key staged with res.header before, the string form of the value of
\* the last res.header call for that key
C16_StagedHeadersCarried ==
    lastCall.op \in Builders =>
       \A key \in DOMAIN history.staged :
          /\ key \in DOMAIN lastCall.out.headers
          /\ lastCall.out.headers[key] = history.staged[key]

C16_Witness ==
    /\ lastCall.op = "redirect"
    /\ DOMAIN history.staged = HeaderKeys
    /\ lastCall.out.headers["X-Custom"] = <<"1", "2", "3">>
    /\ lastCall.out.headers["Location"] = <<"null">>
    /\ lastCall.out.headers["Content-Type"] = <<"true">>

\* text occurs in the value of a header of the response
Carries(response, name, text) ==
    /\ name \in DOMAIN response.headers
    /\ \E i \in 1..Len(response.headers[name]) :
          /\ i + Len(text) - 1 <= Len(response.headers[name])
          /\ SubSeq(response.headers[name], i, i + Len(text) - 1) = text

\* the Set-Cookie value staged on the context, empty if there is none
StagedCookie(c) ==
    IF "Set-Cookie" \in DOMAIN c.customHeaders
    THEN c.customHeaders["Set-Cookie"] ELSE <<>>

\* C17: when res.cookie(k2, ...) follows res.cookie(k1, ...) with another
\* key on the same context, both cookies are staged: a response built
\* afterwards carries the Set-Cookie value of k1 and that of k2
C17_BothCookiesStaged ==
    [][(/\ lastCall.op = "cookie" /\ lastCall'.op = "cookie"
        /\ lastCall.key # lastCall'.key)
       => \A builder \in Builders :
             /\ Carries(Build(context'[1], builder), "Set-Cookie",
                        StagedCookie(context[1]))
             /\ Carries(Build(context'[1], builder), "Set-Cookie",
                        <<lastCall'.key, "=">> \o lastCall'.text)]_vars

\* an attribute of a Set-Cookie value, after its separator, when present
Attribute(present, text) == IF present THEN <<"; ">> \o text ELSE <<>>

\* the Set-Cookie value for a key, a value and options: key=value, then
\* Max-Age or else Expires, Domain, Path, Secure, HttpOnly, SameSite
SetCookieValue(key, value, o) ==
    <<key, "=">> \o value
    \o Attribute(o.maxAge # <<>>,
                 <<"Max-Age=">> \o (IF o.maxAge = <<>> THEN <<>>
                                    ELSE Decimal(o.maxAge[1])))
    \o Attribute(o.maxAge = <<>> /\ o.expires # <<>>,
                 <<"Expires=">> \o (IF o.expires = <<>> THEN <<>>
                                    ELSE o.expires[1].utc))
    \o Attribute(o.domain # <<>>,
                 <<"Domain=">> \o (IF o.domain = <<>> THEN <<>> ELSE o.domain[1]))
    \o Attribute(o.path # <<>>,
                 <<"Path=">> \o (IF o.path = <<>> THEN <<>> ELSE o.path[1]))
    \o Attribute(o.secure = <<TRUE>>, <<"Secure">>)
    \o Attribute(o.httpOnly = <<TRUE>>, <<"HttpOnly">>)
    \o Attribute(o.sameSite # <<>>,
                 <<"SameSite=">> \o (IF o.sameSite = <<>> THEN <<>>
                                     ELSE o.sameSite[1]))

\* C18: res.cookie(key, value, options) stages key=value followed, joined by
\* "; ", by exactly the attributes present, in the order Max-Age (or else
\* Expires), Domain, Path, Secure, HttpOnly, SameSite; with maxAge given,
\* Expires is omitted
C18_SetCookieFormat ==
    lastCall.op = "cookie" =>
       StagedCookie(context[1]) =
          SetCookieValue(lastCall.key, lastCall.text, lastCall.arg)

C18_Witness ==
    /\ lastCall.op = "cookie"
    /\ lastCall.arg.maxAge = <<3600>> /\ lastCall.arg.expires # <<>>
    /\ lastCall.arg.secure = <<FALSE>> /\ lastCall.arg.httpOnly = <<TRUE>>
    /\ StagedCookie(context[1]) =
          <<"session", "=", "abc123", "; ", "Max-Age=", "3", "6", "0", "0",
            "; ", "Domain=", "example.com", "; ", "Path=", "/",
            "; ", "HttpOnly", "; ", "SameSite=", "Strict">>

----------------------------------------------------------------------------
(* Properties of the body accessors *)

\* every call so far was started after all earlier calls had completed
SequentialCalls == \A i \in 1..Len(calls) : calls[i].alone

Done(i) == calls[i].pc = "done"

\* C4: with sequentially awaited accessor calls no call fails because the
\* body was consumed, every result is what the accessor makes of the bytes of
\* the request body, and calls of the same accessor give equal results
C4_SequentialBodyReads ==
    SequentialCalls =>
       \A i \in 1..Len(calls) :
          Done(i) =>
             /\ calls[i].outcome.status # "BodyUsed"
             /\ calls[i].outcome =
                    Decode(calls[i].kind, rawBody.bytes, rawBody.contentType)
             /\ \A j \in 1..Len(calls) :
                   (Done(j) /\ calls[j].kind = calls[i].kind) =>
                      calls[j].outcome = calls[i].outcome

C4_Witness ==
    /\ SequentialCalls
    /\ rawBody = JsonBody
    /\ Len(calls) = MaxCalls
    /\ \A i \in 1..Len(calls) : Done(i) /\ calls[i].outcome.status = "ok"
    /\ calls[1].kind = "text" /\ calls[2].kind = "json" /\ calls[3].kind = "json"
    /\ calls[2].outcome.value = <<"a", "1">>

\* C5: the stream of a request with a body is read at most once per context,
\* also when two accessor calls are started before either has completed
C5_SingleRead == rawBody.present => rawReads <= 1

\* call j was started after call i had completed
After(i, j) == i < j /\ Done(i) /\ calls[j].alone

\* C19: when json() rejects because the bytes are not valid JSON, the cached
\* bytes are unchanged: a later text(), arrayBuffer() or blob() on the context
\* succeeds with the original body, and a later json() fails again without
\* reading the request stream
C19_JsonFailureKeepsCache ==
    \A i \in 1..Len(calls) :
       (Done(i) /\ calls[i].kind = "json"
        /\ calls[i].outcome.status = "SyntaxError") =>
          /\ bodyCache.set /\ bodyCache.bytes = rawBody.bytes
          /\ \A j \in 1..Len(calls) :
                After(i, j) =>
                   /\ calls[j].read = "none"
                   /\ (Done(j) /\ calls[j].kind \in {"text", "arrayBuffer", "blob"})
                         => calls[j].outcome = Outcome("ok", rawBody.bytes)
                   /\ (Done(j) /\ calls[j].kind = "json")
                         => calls[j].outcome.status = "SyntaxError"

C19_Witness ==
    /\ rawBody = TextBody
    /\ Len(calls) = 3 /\ \A i \in 1..3 : Done(i)
    /\ calls[1].kind = "json" /\ calls[1].outcome.status = "SyntaxError"
    /\ calls[2].kind = "text" /\ calls[2].alone
    /\ calls[2].outcome = Outcome("ok", <<"hello">>)
    /\ calls[3].kind = "json" /\ calls[3].alone
    /\ calls[3].outcome.status = "SyntaxError"
    /\ rawReads = 1

----------------------------------------------------------------------------
(* Properties of the query accessors *)

\* the values the query of the request gives a name, in order of occurrence
Occurrences(name) ==
    LET hits == SelectSeq(rawRequest.pairs, LAMBDA pair : pair.name = name)
    IN  [i \in 1..Len(hits) |-> hits[i].value]

\* C20: req.queries(name) returns all values of the key in order of
\* occurrence and req.query(name) the first of them; when the key does not
\* occur, req.queries(name) returns undefined and never an empty list
C20_QueriesAndFirst ==
    /\ lastCall.op = "queries" =>
          IF Occurrences(lastCall.text) = <<>>
          THEN lastCall.out = Undefined
          ELSE lastCall.out = ArrayOf(Occurrences(lastCall.text))
    /\ (lastCall.op = "query" /\ Occurrences(lastCall.text) # <<>>) =>
          lastCall.out = StringOf(Occurrences(lastCall.text)[1])

C20_Witness ==
    /\ rawRequest.search =
          <<"tag", "=", "A", "&", "tag", "=", "B", "&", "tag">>
    /\ lastCall.op = "queries"
    /\ lastCall.out = ArrayOf(<< <<"A">>, <<"B">>, <<>> >>)

----------------------------------------------------------------------------
(* Further properties of the chain executor and of registration *)

\* the places of the log where a function started
Runs(d, ev, mw) ==
    {i \in 1..Len(trace[d]) : trace[d][i].ev = ev /\ trace[d][i].mw = mw}

\* C24: in one dispatch the handler runs at most once and each middleware
\* at most once, also when a middleware invokes next more than once
C24_AtMostOnce ==
    \A d \in DispatchIds :
       /\ Cardinality(Runs(d, "handler", Handler)) <= 1
       /\ \A i \in 1..Len(trace[d]) :
             trace[d][i].ev = "pre" =>
                Cardinality(Runs(d, "pre", trace[d][i].mw)) <= 1

\* the places of the log after place i where the code after await next()
\* of a middleware ran
PostsAfter(d, i) ==
    {j \in (i + 1)..Len(trace[d]) : trace[d][j].ev = "post"}

\* C25 as stated: after a middleware short-circuits, the code after
\* await next() runs in no enclosing middleware except one that itself
\* catches what its next() throws
C25_ExitPhaseSkipped ==
    \A d \in DispatchIds : \A i \in ShortCircuits(d) :
       \A j \in PostsAfter(d, i) : trace[d][j].kind = "catch"

\* C25: after a middleware short-circuits, the code after await next() runs
\* in an enclosing middleware only if that middleware, or one between it
\* and the short-circuiting one, catches what its next() throws
C25_ExitSkippedUnlessCaught ==
    \A d \in DispatchIds : \A i \in ShortCircuits(d) :
       \A j \in PostsAfter(d, i) :
          \E m \in PostsAfter(d, i) : m <= j /\ trace[d][m].kind = "catch"

C25_Witness ==
    /\ phase[1] = "resolved"
    /\ Len(trace[1]) = 3
    /\ trace[1][1].kind = "pass" /\ trace[1][2].kind = "pass"
    /\ trace[1][3].kind = "short"
    /\ result[1] = trace[1][3].value

\* the places of the log where a middleware returned a response after its
\* await next()
ReturnsAfterNext(d) ==
    {i \in 1..Len(trace[d]) :
        trace[d][i].ev = "post" /\ trace[d][i].kind = "nextReturn"}

\* C26: when a middleware calls next and afterwards returns a response R,
\* fetch resolves with R and not with the response of the handler; of
\* several nested middleware doing so the innermost one's value is the
\* result
C26_ReturnAfterNextWins ==
    \A d \in DispatchIds :
       (Settling(d) /\ ReturnsAfterNext(d) # {}) =>
          LET first == CHOOSE i \in ReturnsAfterNext(d) :
                          \A j \in ReturnsAfterNext(d) : i <= j
          IN  /\ phase[d] = "resolved"
              /\ result[d] = trace[d][first].value

\* the chain of dispatch d as fetch found it: the matching entries among
\* the global middleware registered when fetch started, then the route's
FixedChain(d) ==
    AllMiddleware(SubSeq(globalMiddleware, 1, request[d].globals),
                  request[d].pathname, request[d].middleware)

\* C28: the chain of a dispatch is fixed when fetch starts: use() or a route
\* registration while the dispatch is suspended changes neither the chain
\* nor what the dispatch runs
C28_ChainFixedAtFetch ==
    \A d \in DispatchIds :
       Matched(d) =>
          /\ chain[d].middlewares = FixedChain(d)
          /\ \A i \in 1..Len(trace[d]) :
                trace[d][i].ev = "pre" =>
                   \E k \in 1..Len(FixedChain(d)) :
                      FixedChain(d)[k] = trace[d][i].mw
          /\ (Settling(d) /\ AllAwaitNext(d)) =>
                \A k \in 1..Len(FixedChain(d)) :
                   FixedChain(d)[k] # NoMiddleware => HasRun(d, FixedChain(d)[k])

C28_Witness ==
    /\ phase[1] = "resolved"
    /\ request[1].pathname = Users
    /\ request[1].globals = 1
    /\ Len(globalMiddleware) = 2 /\ globalMiddleware[2].path = Star
    /\ Cardinality(router) = 2
    /\ HasRun(1, GlobalMw(1)) /\ ~HasRun(1, GlobalMw(2))

\* C29: the list of global middleware only grows: a step that changes it
\* appends exactly one entry at the end, so the list at any time is a prefix
\* of the list at any later time
C29_GlobalListGrows ==
    [][globalMiddleware' # globalMiddleware =>
          /\ Len(globalMiddleware') = Len(globalMiddleware) + 1
          /\ SubSeq(globalMiddleware', 1, Len(globalMiddleware))
                = globalMiddleware]_vars

C29_Witness ==
    /\ Len(globalMiddleware) = 2
    /\ globalMiddleware[1] = [path |-> Star, middleware |-> GlobalMw(1)]
    /\ globalMiddleware[2] = [path |-> ApiStar, middleware |-> GlobalMw(2)]
    /\ phase[1] = "resolved" /\ request[1].globals = 1

\* q is the path prefix or a path below it
InSubtree(prefix, q) ==
    /\ Len(q) >= Len(prefix)
    /\ SubSeq(q, 1, Len(prefix)) = prefix
    /\ Len(q) > Len(prefix) => q[Len(prefix) + 1] = "/"

\* C27: a global middleware registered with a path P/* never runs for a
\* request whose path lies outside the subtree of P: one registered with
\* /api/* does not run for /apiary
C27_OutsideSubtreeNeverRuns ==
    \A d \in DispatchIds :
       Matched(d) =>
          \A n \in 1..request[d].globals :
             LET path == globalMiddleware[n].path IN
             (EndsWith(path, <<"/", "*">>) /\ HasRun(d, GlobalMw(n))) =>
                InSubtree(SliceOff(path, 2), request[d].pathname)

----------------------------------------------------------------------------
(* Properties of the response builders *)

\* C23: with no headers staged, res.text gives status 200 and Content-Type
\* text/plain, res.json 200 and application/json, res.html 200 and text/html,
\* res.null() 204 with an empty body and no Content-Type, res.redirect(l) 302
\* with an empty body and Location l; an explicit status replaces the
\* default status and changes nothing else
C23_BuilderDefaults ==
    (lastCall.op \in Builders /\ context[1].customHeaders = NoHeaders) =>
       LET explicit == lastCall.arg # Undefined
           out == lastCall.out
           Only(key, value) == [k \in {key} |-> value]
       IN  CASE lastCall.op = "text" ->
                  /\ out.status = IF explicit THEN lastCall.arg.n ELSE 200
                  /\ out.body = <<"Hello">>
                  /\ out.headers = Only("Content-Type", <<"text/plain">>)
             [] lastCall.op = "json" ->
                  /\ out.status = IF explicit THEN lastCall.arg.n ELSE 200
                  /\ out.body = <<"{}">>
                  /\ out.headers = Only("Content-Type", <<"application/json">>)
             [] lastCall.op = "html" ->
                  /\ out.status = IF explicit THEN lastCall.arg.n ELSE 200
                  /\ out.body = <<"<h1>Hello</h1>">>
                  /\ out.headers = Only("Content-Type", <<"text/html">>)
             [] lastCall.op = "null" ->
                  /\ out.status = IF explicit THEN lastCall.arg.n ELSE 204
                  /\ out.body = <<>>
                  /\ "Content-Type" \notin DOMAIN out.headers
             [] lastCall.op = "redirect" ->
                  /\ out.status = IF explicit THEN lastCall.arg.n ELSE 302
                  /\ out.body = <<>>
                  /\ out.headers = Only("Location", <<"/login">>)

C23_Witness ==
    /\ lastCall.op = "redirect"
    /\ lastCall.arg = NumberOf(301)
    /\ context[1].customHeaders = NoHeaders
    /\ history.set # NoHistory.set
    /\ lastCall.out.status = 301

----------------------------------------------------------------------------
(* Properties of the cookie accessor and of the full query mapping *)

\* the values the pairs written with an "=" give a name, in order
EqOccurrences(name) ==
    LET hits == SelectSeq(rawRequest.pairs,
                          LAMBDA pair : pair.name = name /\ pair.form # "bare")
    IN  [i \in 1..Len(hits) |-> hits[i].value]

NamesWithEq ==
    {rawRequest.pairs[i].name : i \in {j \in 1..Len(rawRequest.pairs) :
                                          rawRequest.pairs[j].form # "bare"}}

Values(seq) == {seq[i] : i \in 1..Len(seq)}

\* C21: req.cookie() is the mapping of the pairs of the Cookie header that
\* contain an "=", from the trimmed text before the first "=" to the trimmed
\* text after it, empty values kept and pairs without "=" dropped; it is
\* empty without a Cookie header; req.cookie(name) is undefined for a name
\* that is not in the mapping
C21_CookieMapping ==
    /\ lastCall.op = "reqCookies" =>
          /\ DOMAIN lastCall.out.entries = NamesWithEq
          /\ \A name \in NamesWithEq :
                lastCall.out.entries[name] \in Values(EqOccurrences(name))
    /\ lastCall.op = "reqCookie" =>
          IF lastCall.text \in NamesWithEq
          THEN lastCall.out \in {StringOf(value) :
                                   value \in Values(EqOccurrences(lastCall.text))}
          ELSE lastCall.out = Undefined

\* C22: when a cookie name is repeated in the Cookie header, req.cookie(name)
\* and req.cookie() give the value of its last occurrence, while
\* req.query(name) gives the first occurrence of a repeated query key
C22_LastCookieWins ==
    /\ (lastCall.op = "reqCookie" /\ lastCall.text # <<>>
            /\ EqOccurrences(lastCall.text) # <<>>) =>
          LET values == EqOccurrences(lastCall.text)
          IN  lastCall.out = StringOf(values[Len(values)])
    /\ lastCall.op = "reqCookies" =>
          \A name \in NamesWithEq \ {<<>>} :
             LET values == EqOccurrences(name)
             IN  /\ name \in DOMAIN lastCall.out.entries
                 /\ lastCall.out.entries[name] = values[Len(values)]
    /\ (lastCall.op = "query" /\ Occurrences(lastCall.text) # <<>>) =>
          lastCall.out = StringOf(Occurrences(lastCall.text)[1])

C22_Witness ==
    /\ rawRequest.cookie = << <<"tag", "=", "A", ";", " ", "tag", "=", "B">> >>
    /\ rawRequest.search = <<"tag", "=", "A", "&", "tag", "=", "B">>
    /\ lastCall.op = "reqCookies"
    /\ lastCall.out = ObjectOf([name \in {<<"tag">>} |-> <<"B">>])

\* C30: for every key of the query, the mapping req.query() returns maps the
\* key to the value req.query(key) returns, also when the key is repeated
C30_QueryMappingAgrees ==
    lastCall.op = "queryAll" =>
       \A key \in DOMAIN lastCall.out.entries :
          StringOf(lastCall.out.entries[key]) = queryFn(rawRequest.search, key)

====
